---- MODULE Spec2Model ----
(***************************************************************************)
(* raw-twitter: one OAuth 1.0a signed request to the Twitter REST API.     *)
(*                                                                         *)
(* The model follows src/main.rs.  A Rust String is a sequence of UTF-8    *)
(* bytes (naturals 0..255); a BTreeMap is the sequence of its (key, value) *)
(* pairs in ascending key order, which is the order its iterator yields.   *)
(* main() is a straight-line pipeline; pc is the position reached in it.   *)
(***************************************************************************)
EXTENDS Integers, Sequences, FiniteSets, TLC

VARIABLES
    pc,              \* position in main()
    arguments,       \* Arguments.parameters: the --param strings, in order
    environments,    \* Environments (the four credentials), or NoValue
    template_file,   \* the JSON object entries of "parameters", in file order
    template,        \* Template {endpoint, method, parameters}, or NoValue
    oauth_params,    \* BTreeMap<&str, String>
    request_params,  \* BTreeMap<Box<str>, Value>
    request_params_str, \* Vec<String> after sort()
    connected_params,   \* the joined parameter string
    signature_base,  \* the signature base string
    request,         \* the surf request that was awaited, or NoValue
    requests_sent,   \* number of HTTP requests handed to the transport
    stdout,          \* what println! wrote
    exit             \* "running", "ok", "error" or "panic"

vars == <<pc, arguments, environments, template_file, template, oauth_params,
          request_params, request_params_str, connected_params,
          signature_base, request, requests_sent, stdout, exit>>

NoValue == [none |-> TRUE]

----------------------------------------------------------------------------
(* Bounds of the model.                                                    *)

\* longest list of --param overrides on the command line
MaxOverrides == 2
\* largest number of entries of the template's "parameters" object
MaxTemplateParams == 2
\* the random generator is one of the streams 0..MaxRng
MaxRng == 1

----------------------------------------------------------------------------
(* Strings as byte sequences.                                              *)

RECURSIVE Flatten(_)
\* the concatenation of the strings of ss (by halves, to keep recursion shallow)
Flatten(ss) ==
    IF ss = <<>> THEN <<>>
    ELSE IF Len(ss) = 1 THEN ss[1]
    ELSE LET mid == Len(ss) \div 2
         IN  Flatten(SubSeq(ss, 1, mid)) \o Flatten(SubSeq(ss, mid + 1, Len(ss)))

RECURSIVE JoinWith(_, _)
\* [String]::join(sep)
JoinWith(ss, sep) ==
    IF ss = <<>> THEN <<>>
    ELSE IF Len(ss) = 1 THEN ss[1]
    ELSE ss[1] \o sep \o JoinWith(Tail(ss), sep)

Min2(a, b) == IF a < b THEN a ELSE b

\* Ord for str / String: byte-lexicographic, a proper prefix sorts first
StrLess(a, b) ==
    LET n == Min2(Len(a), Len(b))
        diff == {i \in 1..n : a[i] # b[i]}
    IN  IF diff = {} THEN Len(a) < Len(b)
        ELSE LET i == CHOOSE j \in diff : \A k \in diff : j <= k
             IN  a[i] < b[i]

RECURSIVE SplitOn(_, _)
\* str::split(sep): every piece between occurrences of the byte sep
SplitOn(s, sep) ==
    LET hits == {i \in 1..Len(s) : s[i] = sep}
    IN  IF hits = {} THEN <<s>>
        ELSE LET i == CHOOSE j \in hits : \A k \in hits : j <= k
             IN  <<SubSeq(s, 1, i - 1)>> \o SplitOn(SubSeq(s, i + 1, Len(s)), sep)

\* Iterator::take(n)
Take(ss, n) == SubSeq(ss, 1, Min2(n, Len(ss)))

RECURSIVE NatToString(_)
NatToString(n) ==
    IF n < 10 THEN <<48 + n>> ELSE NatToString(n \div 10) \o <<48 + (n % 10)>>

\* u64::to_string / serde_json::Number::to_string for integers
IntToString(n) == IF n < 0 THEN <<45>> \o NatToString(-n) ELSE NatToString(n)

\* bool::to_string
BoolToString(b) ==
    IF b THEN <<116, 114, 117, 101>> ELSE <<102, 97, 108, 115, 101>>

----------------------------------------------------------------------------
(* The percent-encoder.                                                    *)

\* percent_encoding::CONTROLS: C0 controls and DEL
CONTROLS == (0..31) \cup {127}

\* the ASCII bytes of RFC3986_ESCAPES
RFC3986_ESCAPES ==
    CONTROLS \cup
    {34, 35, 60, 62}                                \* " # < >
    \cup {63, 96, 123, 125}                         \* ? ` { }
    \cup {47, 58, 59, 61, 64, 91, 92, 93, 94, 124}  \* / : ; = @ [ \ ] ^ |
    \cup {36, 37, 38, 43, 44}                       \* $ % & + ,

HexUpper == <<48, 49, 50, 51, 52, 53, 54, 55, 56, 57, 65, 66, 67, 68, 69, 70>>

\* percent_encode_byte: "%XX", upper-case hex
PercentEncodeByte(b) == <<37, HexUpper[(b \div 16) + 1], HexUpper[(b % 16) + 1]>>

\* AsciiSet::should_percent_encode: non-ASCII bytes always, ASCII by the set
ShouldPercentEncode(b, set) == b >= 128 \/ b \in set

\* utf8_percent_encode(s, set).to_string()
Utf8PercentEncode(s, set) ==
    Flatten([i \in 1..Len(s) |->
                IF ShouldPercentEncode(s[i], set)
                THEN PercentEncodeByte(s[i]) ELSE <<s[i]>>])

----------------------------------------------------------------------------
(* BTreeMap as the key-ordered sequence of its entries.                    *)

MapKeys(m) == {m[i][1] : i \in 1..Len(m)}

\* BTreeMap::get for a key that is present
MapGet(m, k) == m[CHOOSE i \in 1..Len(m) : m[i][1] = k][2]

\* BTreeMap::insert: replaces the value of an equal key, else inserts in order
BTreeInsert(m, k, v) ==
    IF k \in MapKeys(m)
    THEN [i \in 1..Len(m) |-> IF m[i][1] = k THEN <<k, v>> ELSE m[i]]
    ELSE LET below == Cardinality({i \in 1..Len(m) : StrLess(m[i][1], k)})
         IN  SubSeq(m, 1, below) \o <<<<k, v>>>> \o SubSeq(m, below + 1, Len(m))

RECURSIVE InsertSorted(_, _)
InsertSorted(sorted, x) ==
    IF sorted = <<>> THEN <<x>>
    ELSE IF StrLess(x, Head(sorted)) THEN <<x>> \o sorted
    ELSE <<Head(sorted)>> \o InsertSorted(Tail(sorted), x)

\* a variant of SortStrings: the sort() call left out
SortStringsOmitted(ss) == ss

RECURSIVE SortStrings(_)
\* Vec<String>::sort(): ascending by Ord for String
SortStrings(ss) ==
    IF ss = <<>> THEN <<>> ELSE InsertSorted(SortStrings(Tail(ss)), Head(ss))

----------------------------------------------------------------------------
(* serde_json::Value, Method, and the inputs of a run.                     *)

StringValue(s) == [t |-> "String", s |-> s,    n |-> 0, b |-> FALSE]
NumberValue(n) == [t |-> "Number", s |-> <<>>, n |-> n, b |-> FALSE]
BoolValue(b)   == [t |-> "Bool",   s |-> <<>>, n |-> 0, b |-> b]
\* Null stands for the values of the last match arm: Null, Array, Object
NullValue      == [t |-> "Null",   s |-> <<>>, n |-> 0, b |-> FALSE]

Methods == {"Get", "Post", "Put", "Delete"}

\* a variant of MethodToString: the Delete arm answers "GET"
MethodToStringDeleteAsGet(m) ==
    CASE m = "Get"    -> <<71, 69, 84>>
      [] m = "Post"   -> <<80, 79, 83, 84>>
      [] m = "Put"    -> <<80, 85, 84>>
      [] m = "Delete" -> <<71, 69, 84>>

\* Method::to_string
MethodToString(m) ==
    CASE m = "Get"    -> <<71, 69, 84>>                \* "GET"
      [] m = "Post"   -> <<80, 79, 83, 84>>            \* "POST"
      [] m = "Put"    -> <<80, 85, 84>>                \* "PUT"
      [] m = "Delete" -> <<68, 69, 76, 69, 84, 69>>    \* "DELETE"

\* surf::get / post / put / delete: the verb of the request that is built
SurfMethod(m) ==
    CASE m = "Get"    -> <<71, 69, 84>>
      [] m = "Post"   -> <<80, 79, 83, 84>>
      [] m = "Put"    -> <<80, 85, 84>>
      [] m = "Delete" -> <<68, 69, 76, 69, 84, 69>>

\* the hex alphabet the nonce is drawn from: "0123456789abcdef"
NONCE_CHARS ==
    <<48, 49, 50, 51, 52, 53, 54, 55, 56, 57, 97, 98, 99, 100, 101, 102>>

\* the amount passed to choose_multiple
NonceAmount == 32

K_oauth_version          == <<111, 97, 117, 116, 104, 95, 118, 101, 114, 115, 105, 111, 110>>
K_oauth_signature_method == <<111, 97, 117, 116, 104, 95, 115, 105, 103, 110, 97, 116, 117, 114, 101, 95, 109, 101, 116, 104, 111, 100>>
K_oauth_consumer_key     == <<111, 97, 117, 116, 104, 95, 99, 111, 110, 115, 117, 109, 101, 114, 95, 107, 101, 121>>
K_oauth_token            == <<111, 97, 117, 116, 104, 95, 116, 111, 107, 101, 110>>
K_oauth_nonce            == <<111, 97, 117, 116, 104, 95, 110, 111, 110, 99, 101>>
K_oauth_timestamp        == <<111, 97, 117, 116, 104, 95, 116, 105, 109, 101, 115, 116, 97, 109, 112>>
K_oauth_signature        == <<111, 97, 117, 116, 104, 95, 115, 105, 103, 110, 97, 116, 117, 114, 101>>

\* "https://api.twitter.com/1.1/"
ApiRoot ==
    <<104, 116, 116, 112, 115, 58, 47, 47, 97, 112, 105, 46, 116, 119, 105,
      116, 116, 101, 114, 46, 99, 111, 109, 47, 49, 46, 49, 47>>

\* the environment of the run: twitter_ck "ck", twitter_cs "c s",
\* twitter_at "at", twitter_ats "t&s"
Credentials ==
    [consumer_key        |-> <<99, 107>>,
     consumer_secret     |-> <<99, 32, 115>>,
     access_token        |-> <<97, 116>>,
     access_token_secret |-> <<116, 38, 115>>]

\* the --param strings a command line is made of:
\* "q=x=y", "q=", "=x", "x", "a/b=z"
OverrideStrings ==
    {<<113, 61, 120, 61, 121>>, <<113, 61>>, <<61, 120>>, <<120>>,
     <<97, 47, 98, 61, 122>>}

OverrideLists ==
    UNION {[1..n -> OverrideStrings] : n \in 0..MaxOverrides}

\* keys of the template's "parameters" object: "q", "a/b"
TemplateKeys == {<<113>>, <<97, 47, 98>>}

\* values of the template's "parameters" object: "a b", 7, true, null
TemplateValues ==
    {StringValue(<<97, 32, 98>>), NumberValue(7), BoolValue(TRUE), NullValue}

\* a JSON object: its entries in file order, no key twice
TemplateFiles ==
    UNION {{f \in [1..n -> TemplateKeys \X TemplateValues] :
              \A i, j \in 1..n : i # j => f[i][1] # f[j][1]}
           : n \in 0..MaxTemplateParams}

\* "statuses/show.json"
Endpoint ==
    <<115, 116, 97, 116, 117, 115, 101, 115, 47, 115, 104, 111, 119, 46, 106,
      115, 111, 110>>

\* SystemTime::now() in seconds relative to UNIX_EPOCH; negative is before it
ClockReadings == {-1, 1609459200}

\* the body the server answers with: {"ok":1}
ResponseBody == <<123, 34, 111, 107, 34, 58, 49, 125>>

----------------------------------------------------------------------------
(* The steps of main().                                                    *)

RECURSIVE ParseParameters(_)
\* serde: the entries of the JSON object inserted one by one into the BTreeMap
ParseParameters(entries) ==
    IF entries = <<>> THEN <<>>
    ELSE LET last == entries[Len(entries)]
         IN  BTreeInsert(ParseParameters(SubSeq(entries, 1, Len(entries) - 1)),
                         last[1], last[2])

RECURSIVE ChooseMultiple(_, _, _)
\* SliceRandom::choose_multiple: min(amount, len) distinct elements of the
\* slice, in an order the generator decides (rng is the generator's stream)
ChooseMultiple(slice, amount, rng) ==
    IF amount = 0 \/ slice = <<>> THEN <<>>
    ELSE LET i == (rng % Len(slice)) + 1
             rest == SubSeq(slice, 1, i - 1) \o SubSeq(slice, i + 1, Len(slice))
         IN  <<slice[i]>> \o ChooseMultiple(rest, amount - 1, rng \div Len(slice))

\* lines 149-168: the OAuth parameters before signing
NewOAuthParams(env, rng, now) ==
    LET p1 == BTreeInsert(<<>>, K_oauth_version, <<49, 46, 48>>)
        p2 == BTreeInsert(p1, K_oauth_signature_method,
                          <<72, 77, 65, 67, 45, 83, 72, 65, 49>>)
        p3 == BTreeInsert(p2, K_oauth_consumer_key, env.consumer_key)
        p4 == BTreeInsert(p3, K_oauth_token, env.access_token)
        p5 == BTreeInsert(p4, K_oauth_nonce,
                          ChooseMultiple(NONCE_CHARS, NonceAmount, rng))
    IN  BTreeInsert(p5, K_oauth_timestamp, IntToString(now))

\* line 173: op.split('=').take(2).collect()
OverrideKeyValue(op) == Take(SplitOn(op, 61), 2)

\* the body of the loop over --param: insert or replace, or skip with a warning
ApplyOverride(rp, op) ==
    LET kv == OverrideKeyValue(op)
    IN  IF Len(kv) >= 2 /\ kv[1] # <<>>
        THEN BTreeInsert(rp, kv[1], StringValue(kv[2]))
        ELSE rp

RECURSIVE ApplyOverridesAbortOnInvalid(_, _)
\* a variant of ApplyOverrides: the loop ends at the first invalid override
ApplyOverridesAbortOnInvalid(rp, ops) ==
    IF ops = <<>> THEN rp
    ELSE LET kv == OverrideKeyValue(Head(ops))
         IN  IF Len(kv) >= 2 /\ kv[1] # <<>>
             THEN ApplyOverridesAbortOnInvalid(ApplyOverride(rp, Head(ops)), Tail(ops))
             ELSE rp

RECURSIVE ApplyOverrides(_, _)
\* lines 171-182: the overrides applied in command-line order
ApplyOverrides(rp, ops) ==
    IF ops = <<>> THEN rp
    ELSE ApplyOverrides(ApplyOverride(rp, Head(ops)), Tail(ops))

\* the match on the Value; the last arm is unreachable!()
Supported(v) == v.t \in {"String", "Number", "Bool"}

ValueText(v) ==
    CASE v.t = "String" -> Utf8PercentEncode(v.s, RFC3986_ESCAPES)
      [] v.t = "Number" -> IntToString(v.n)
      [] v.t = "Bool"   -> BoolToString(v.b)

\* lines 184-203: "key=value" of the request parameters, then of the OAuth ones
ParamStrings(rp, op) ==
    [i \in 1..Len(rp) |-> rp[i][1] \o <<61>> \o ValueText(rp[i][2])]
    \o
    [i \in 1..Len(op) |->
        op[i][1] \o <<61>> \o Utf8PercentEncode(op[i][2], RFC3986_ESCAPES)]

\* line 207
EndpointUrl(t) == ApiRoot \o t.endpoint

\* lines 211-216
SignatureBase(t, connected) ==
    MethodToString(t.method) \o <<38>>
    \o Utf8PercentEncode(EndpointUrl(t), RFC3986_ESCAPES) \o <<38>>
    \o Utf8PercentEncode(connected, RFC3986_ESCAPES)

\* lines 218-221: the two secrets joined by '&', as they are
SignatureKey(env) == env.consumer_secret \o <<38>> \o env.access_token_secret

RECURSIVE ByteSum(_)
ByteSum(s) ==
    IF s = <<>> THEN 0
    ELSE IF Len(s) = 1 THEN s[1]
    ELSE LET mid == Len(s) \div 2
         IN  (ByteSum(SubSeq(s, 1, mid)) + ByteSum(SubSeq(s, mid + 1, Len(s)))) % 65536

\* HMAC-SHA1 stands for a keyed digest: here three bytes that depend on the
\* key and on the message (the real digest has twenty)
HmacSha1(key, msg) ==
    <<ByteSum(key) % 256, ByteSum(msg) % 256, (ByteSum(key \o msg) \div 256) % 256>>

Base64Chars ==
    <<65, 66, 67, 68, 69, 70, 71, 72, 73, 74, 75, 76, 77, 78, 79, 80, 81, 82,
      83, 84, 85, 86, 87, 88, 89, 90, 97, 98, 99, 100, 101, 102, 103, 104,
      105, 106, 107, 108, 109, 110, 111, 112, 113, 114, 115, 116, 117, 118,
      119, 120, 121, 122, 48, 49, 50, 51, 52, 53, 54, 55, 56, 57, 43, 47>>

RECURSIVE Base64Encode(_)
\* base64::encode: standard alphabet, '=' padding
Base64Encode(bs) ==
    IF bs = <<>> THEN <<>>
    ELSE LET b1 == bs[1]
             b2 == IF Len(bs) >= 2 THEN bs[2] ELSE 0
             b3 == IF Len(bs) >= 3 THEN bs[3] ELSE 0
             c1 == Base64Chars[(b1 \div 4) + 1]
             c2 == Base64Chars[((b1 % 4) * 16 + (b2 \div 16)) + 1]
             c3 == IF Len(bs) >= 2
                   THEN Base64Chars[((b2 % 16) * 4 + (b3 \div 64)) + 1] ELSE 61
             c4 == IF Len(bs) >= 3 THEN Base64Chars[(b3 % 64) + 1] ELSE 61
         IN  <<c1, c2, c3, c4>>
             \o (IF Len(bs) > 3 THEN Base64Encode(SubSeq(bs, 4, Len(bs))) ELSE <<>>)

\* lines 238-253: the Authorization header value
AuthorizationHeader(op) ==
    <<79, 65, 117, 116, 104, 32>>      \* "OAuth "
    \o JoinWith([i \in 1..Len(op) |->
                    op[i][1] \o <<61, 34>>
                    \o Utf8PercentEncode(op[i][2], RFC3986_ESCAPES) \o <<34>>],
                <<44, 32>>)

----------------------------------------------------------------------------
(* The state machine.                                                      *)

Init ==
    /\ pc = "start"
    /\ arguments \in OverrideLists
    /\ environments = NoValue
    /\ template_file = NoValue
    /\ template = NoValue
    /\ oauth_params = <<>>
    /\ request_params = <<>>
    /\ request_params_str = <<>>
    /\ connected_params = NoValue
    /\ signature_base = NoValue
    /\ request = NoValue
    /\ requests_sent = 0
    /\ stdout = NoValue
    /\ exit = "running"

\* lines 129-132, Ok: the four variables are set
LoadEnvironments ==
    /\ pc = "start"
    /\ environments' = Credentials
    /\ pc' = "env"
    /\ UNCHANGED <<arguments, template_file, template, oauth_params,
                   request_params, request_params_str, connected_params,
                   signature_base, request, requests_sent, stdout, exit>>

\* lines 129-132, Err: from_env() fails and main returns the error
LoadEnvironmentsFail ==
    /\ pc = "start"
    /\ pc' = "env_failed"
    /\ exit' = "error"
    /\ UNCHANGED <<arguments, environments, template_file, template,
                   oauth_params, request_params, request_params_str,
                   connected_params, signature_base, request, requests_sent,
                   stdout>>

\* lines 138-146, Ok: the file is read and deserialized
LoadTemplate ==
    /\ pc = "env"
    /\ \E file \in TemplateFiles, m \in Methods :
          /\ template_file' = file
          /\ template' = [endpoint   |-> Endpoint,
                          method     |-> m,
                          parameters |-> ParseParameters(file)]
    /\ pc' = "template"
    /\ UNCHANGED <<arguments, environments, oauth_params, request_params,
                   request_params_str, connected_params, signature_base,
                   request, requests_sent, stdout, exit>>

\* lines 138-146, Err: open, read or from_str fails and main returns the error
LoadTemplateFail ==
    /\ pc = "env"
    /\ pc' = "template_failed"
    /\ exit' = "error"
    /\ UNCHANGED <<arguments, environments, template_file, template,
                   oauth_params, request_params, request_params_str,
                   connected_params, signature_base, request, requests_sent,
                   stdout>>

\* lines 149-168, the clock at or after the epoch
GenerateOAuthParams ==
    /\ pc = "template"
    /\ \E rng \in 0..MaxRng, now \in ClockReadings :
          /\ now >= 0
          /\ oauth_params' = NewOAuthParams(environments, rng, now)
    /\ pc' = "oauth"
    /\ UNCHANGED <<arguments, environments, template_file, template,
                   request_params, request_params_str, connected_params,
                   signature_base, request, requests_sent, stdout, exit>>

\* a variant of ClockFail: the error is logged and main goes on without
\* a timestamp
ClockFailIgnored ==
    /\ pc = "template"
    /\ \E now \in ClockReadings : now < 0
    /\ oauth_params' =
          LET p1 == BTreeInsert(<<>>, K_oauth_version, <<49, 46, 48>>)
              p2 == BTreeInsert(p1, K_oauth_consumer_key, environments.consumer_key)
          IN  BTreeInsert(p2, K_oauth_token, environments.access_token)
    /\ pc' = "oauth"
    /\ UNCHANGED <<arguments, environments, template_file, template,
                   request_params, request_params_str, connected_params,
                   signature_base, request, requests_sent, stdout, exit>>

\* lines 161-167, Err: the clock is before the epoch and main returns the error
ClockFail ==
    /\ pc = "template"
    /\ \E now \in ClockReadings : now < 0
    /\ pc' = "clock_failed"
    /\ exit' = "error"
    /\ UNCHANGED <<arguments, environments, template_file, template,
                   oauth_params, request_params, request_params_str,
                   connected_params, signature_base, request, requests_sent,
                   stdout>>

\* lines 171-182
MergeOverrides ==
    /\ pc = "oauth"
    /\ request_params' = ApplyOverrides(template.parameters, arguments)
    /\ pc' = "merged"
    /\ UNCHANGED <<arguments, environments, template_file, template,
                   oauth_params, request_params_str, connected_params,
                   signature_base, request, requests_sent, stdout, exit>>

\* lines 184-227: the parameter strings, the base string and the signature
Sign ==
    /\ pc = "merged"
    /\ \A i \in 1..Len(request_params) : Supported(request_params[i][2])
    /\ LET strs == SortStrings(ParamStrings(request_params, oauth_params))
           connected == JoinWith(strs, <<38>>)
           base == SignatureBase(template, connected)
           sig == Base64Encode(HmacSha1(SignatureKey(environments), base))
       IN  /\ request_params_str' = strs
           /\ connected_params' = connected
           /\ signature_base' = base
           /\ oauth_params' = BTreeInsert(oauth_params, K_oauth_signature, sig)
    /\ pc' = "signed"
    /\ UNCHANGED <<arguments, environments, template_file, template,
                   request_params, request, requests_sent, stdout, exit>>

\* line 194: a value that is no string, number or boolean reaches unreachable!()
SignPanic ==
    /\ pc = "merged"
    /\ \E i \in 1..Len(request_params) : ~Supported(request_params[i][2])
    /\ pc' = "panicked"
    /\ exit' = "panic"
    /\ UNCHANGED <<arguments, environments, template_file, template,
                   oauth_params, request_params, request_params_str,
                   connected_params, signature_base, request, requests_sent,
                   stdout>>

\* a variant of Dispatch: the query is the template's parameters, without
\* the overrides
DispatchTemplateParameters ==
    /\ pc = "signed"
    /\ request' = [method        |-> SurfMethod(template.method),
                   url           |-> EndpointUrl(template),
                   authorization |-> AuthorizationHeader(oauth_params),
                   query         |-> template.parameters]
    /\ requests_sent' = requests_sent + 1
    /\ pc' = "sent"
    /\ UNCHANGED <<arguments, environments, template_file, template,
                   oauth_params, request_params, request_params_str,
                   connected_params, signature_base, stdout, exit>>

\* lines 238-259: the request is built and awaited
Dispatch ==
    /\ pc = "signed"
    /\ request' = [method        |-> SurfMethod(template.method),
                   url           |-> EndpointUrl(template),
                   authorization |-> AuthorizationHeader(oauth_params),
                   query         |-> IF request_params = <<>> THEN <<>>
                                     ELSE request_params]
    /\ requests_sent' = requests_sent + 1
    /\ pc' = "sent"
    /\ UNCHANGED <<arguments, environments, template_file, template,
                   oauth_params, request_params, request_params_str,
                   connected_params, signature_base, stdout, exit>>

\* lines 255-260, Err: the transport or the body read fails
NetworkFail ==
    /\ pc = "sent"
    /\ pc' = "network_failed"
    /\ exit' = "error"
    /\ UNCHANGED <<arguments, environments, template_file, template,
                   oauth_params, request_params, request_params_str,
                   connected_params, signature_base, request, requests_sent,
                   stdout>>

\* lines 260-263: the body is printed and main returns Ok(())
PrintBody ==
    /\ pc = "sent"
    /\ stdout' = ResponseBody
    /\ pc' = "done"
    /\ exit' = "ok"
    /\ UNCHANGED <<arguments, environments, template_file, template,
                   oauth_params, request_params, request_params_str,
                   connected_params, signature_base, request, requests_sent>>

Next ==
    \/ LoadEnvironments
    \/ LoadEnvironmentsFail
    \/ LoadTemplate
    \/ LoadTemplateFail
    \/ GenerateOAuthParams
    \/ ClockFail
    \/ MergeOverrides
    \/ Sign
    \/ SignPanic
    \/ Dispatch
    \/ NetworkFail
    \/ PrintBody

Spec == Init /\ [][Next]_vars

----------------------------------------------------------------------------
(* Vocabulary of the properties.                                           *)

\* A-Z a-z 0-9 - . _ ~
Unreserved ==
    (65..90) \cup (97..122) \cup (48..57) \cup {45, 46, 95, 126}

\* the '&'-separated fields of the signature base string
BaseFields == SplitOn(signature_base, 38)

\* the OAuth parameters that were signed: all but oauth_signature
WithoutSignature(op) ==
    LET keep == {i \in 1..Len(op) : op[i][1] # K_oauth_signature}
    IN  [n \in 1..Cardinality(keep) |->
            op[CHOOSE i \in keep : Cardinality({j \in keep : j < i}) = n - 1]]

\* an override string has a '=' with a non-empty key before the first one
HasEquals(op) == \E i \in 1..Len(op) : op[i] = 61
FirstEquals(op) == CHOOSE i \in 1..Len(op) : op[i] = 61 /\ \A j \in 1..(i - 1) : op[j] # 61
ValidOverride(op) == HasEquals(op) /\ FirstEquals(op) > 1
KeyBeforeFirstEquals(op) == SubSeq(op, 1, FirstEquals(op) - 1)
TextAfterFirstEquals(op) == SubSeq(op, FirstEquals(op) + 1, Len(op))

\* the positions of the valid overrides of key k on the command line
OverridesOf(k) ==
    {i \in 1..Len(arguments) :
        ValidOverride(arguments[i]) /\ KeyBeforeFirstEquals(arguments[i]) = k}

LastOf(S) == CHOOSE i \in S : \A j \in S : j <= i

StartsWith(s, prefix) ==
    Len(s) >= Len(prefix) /\ SubSeq(s, 1, Len(prefix)) = prefix

Ascending(ss) ==
    \A i, j \in 1..Len(ss) : i < j => (ss[i] = ss[j] \/ StrLess(ss[i], ss[j]))

Reorderings(n) == {p \in [1..n -> 1..n] : \A i, j \in 1..n : i # j => p[i] # p[j]}

Reordered(s, p) == [i \in 1..Len(s) |-> s[p[i]]]

\* the normalized parameter string of a run with this template, these
\* overrides and these OAuth parameters
NormalizedString(file, overrides, op) ==
    JoinWith(SortStrings(ParamStrings(ApplyOverrides(ParseParameters(file), overrides), op)),
             <<38>>)

----------------------------------------------------------------------------
(* The properties.                                                         *)

\* C1: the two encoded fields of the signature base string (the endpoint URL
\* and the joined parameter string) are made only of unreserved characters
\* and '%'.
C1_EncoderOutputIsUnreservedOrPercent ==
    signature_base # NoValue =>
        \A f \in {2, 3} : \A i \in 1..Len(BaseFields[f]) :
            BaseFields[f][i] \in Unreserved \cup {37}

\* C2: the query sent with the request is the parameter set the normalized
\* parameter string was built from, and oauth_signature is not part of the
\* signed strings: it enters the OAuth parameters only with the signature.
C2_SentParametersAreTheSignedOnes ==
    /\ signature_base = NoValue => K_oauth_signature \notin MapKeys(oauth_params)
    /\ pc = "sent" =>
        /\ request.query = request_params
        /\ connected_params =
              JoinWith(SortStrings(ParamStrings(request.query,
                                                WithoutSignature(oauth_params))),
                       <<38>>)
        /\ BaseFields[3] = Utf8PercentEncode(connected_params, RFC3986_ESCAPES)
        /\ \A j \in 1..Len(request_params_str) :
              ~StartsWith(request_params_str[j], K_oauth_signature \o <<61>>)
        /\ K_oauth_signature \in MapKeys(oauth_params)

C2_Witness ==
    /\ pc = "sent"
    /\ request.query # template.parameters
    /\ request.query # <<>>

\* C3: the verb that opens the signature base string is the verb of the
\* request that is dispatched, for each of the four methods.
C3_SignedVerbIsSentVerb ==
    pc = "sent" => BaseFields[1] = request.method

C3_Witness ==
    /\ pc = "sent"
    /\ template.method = "Delete"
    /\ request.method = <<68, 69, 76, 69, 84, 69>>

\* C4: after the merge every key holds the value of its last valid override,
\* or else its template value; invalid overrides change nothing and do not
\* stop the later ones.
C4_LastValidOverrideWins ==
    pc = "merged" =>
        /\ MapKeys(request_params) =
              MapKeys(template.parameters)
              \cup {KeyBeforeFirstEquals(arguments[i]) :
                       i \in {j \in 1..Len(arguments) : ValidOverride(arguments[j])}}
        /\ \A k \in MapKeys(request_params) :
              IF OverridesOf(k) # {}
              THEN MapGet(request_params, k) =
                      StringValue(OverrideKeyValue(arguments[LastOf(OverridesOf(k))])[2])
              ELSE MapGet(request_params, k) = MapGet(template.parameters, k)

C4_Witness ==
    /\ pc = "merged"
    /\ Len(arguments) = 2
    /\ ~ValidOverride(arguments[1])
    /\ ValidOverride(arguments[2])
    /\ KeyBeforeFirstEquals(arguments[2]) \in MapKeys(template.parameters)
    /\ MapGet(request_params, KeyBeforeFirstEquals(arguments[2]))
          # MapGet(template.parameters, KeyBeforeFirstEquals(arguments[2]))
    /\ Len(request_params) = 2

\* C5: a template with a parameter value that is no string, number or
\* boolean never gets a request dispatched and never ends successfully.
C5_UnsupportedValueStopsTheRun ==
    (template # NoValue
     /\ \E i \in 1..Len(template.parameters) : ~Supported(template.parameters[i][2]))
    => (requests_sent = 0 /\ exit # "ok" /\ pc \notin {"signed", "sent", "done"})

\* C6: at most one request is dispatched, only after the credentials, the
\* template, the timestamp and the signature are there; a failed load or
\* clock read ends with an error and no request; success comes only after
\* the dispatch and the printed body.
C6_OneRequestAfterAllSteps ==
    /\ requests_sent <= 1
    /\ requests_sent = 1 =>
          /\ environments # NoValue
          /\ template # NoValue
          /\ K_oauth_timestamp \in MapKeys(oauth_params)
          /\ K_oauth_nonce \in MapKeys(oauth_params)
          /\ signature_base # NoValue
          /\ K_oauth_signature \in MapKeys(oauth_params)
    /\ pc \in {"env_failed", "template_failed", "clock_failed"} =>
          (exit = "error" /\ requests_sent = 0 /\ ~ENABLED Next)
    /\ exit = "ok" => (requests_sent = 1 /\ stdout = ResponseBody /\ pc = "done")
    /\ exit # "running" => ~ENABLED Next

C6_Witness ==
    /\ exit = "ok"
    /\ requests_sent = 1
    /\ stdout = ResponseBody

\* C7: the nonce has exactly 32 characters, each a lowercase hex digit.
C7_NonceHas32HexCharacters ==
    K_oauth_nonce \in MapKeys(oauth_params) =>
        /\ Len(MapGet(oauth_params, K_oauth_nonce)) = 32
        /\ \A i \in 1..Len(MapGet(oauth_params, K_oauth_nonce)) :
              \E c \in 1..Len(NONCE_CHARS) :
                 MapGet(oauth_params, K_oauth_nonce)[i] = NONCE_CHARS[c]

\* C8: a valid override that is the last one of its key sets the key to all
\* of the text after its first '='.
C8_ValueIsAllTextAfterFirstEquals ==
    pc = "merged" =>
        \A i \in 1..Len(arguments) :
            (ValidOverride(arguments[i])
             /\ i = LastOf(OverridesOf(KeyBeforeFirstEquals(arguments[i]))))
            => MapGet(request_params, KeyBeforeFirstEquals(arguments[i]))
                  = StringValue(TextAfterFirstEquals(arguments[i]))

\* C9: every request parameter enters the parameter strings with its key
\* percent-encoded as well as its value.
C9_KeysArePercentEncoded ==
    pc = "signed" =>
        \A i \in 1..Len(request_params) :
            \E j \in 1..Len(request_params_str) :
                request_params_str[j] =
                    Utf8PercentEncode(request_params[i][1], RFC3986_ESCAPES)
                    \o <<61>> \o ValueText(request_params[i][2])

\* C10: the normalized parameter string is the '&'-join of the entries of
\* the request and OAuth parameters in ascending byte order of the whole
\* entry, and it is the same for every order of the template's entries and
\* every order of overrides of different keys.
C10_NormalizedStringIsSortedAndOrderFree ==
    pc = "signed" =>
        LET op == WithoutSignature(oauth_params)
            entries == ParamStrings(request_params, op)
        IN  /\ connected_params = JoinWith(request_params_str, <<38>>)
            /\ Len(request_params_str) = Len(entries)
            /\ {request_params_str[i] : i \in 1..Len(request_params_str)}
                  = {entries[i] : i \in 1..Len(entries)}
            /\ Ascending(request_params_str)
            /\ \A p \in Reorderings(Len(template_file)) :
                  NormalizedString(Reordered(template_file, p), arguments, op)
                     = connected_params
            /\ (\A i, j \in 1..Len(arguments) :
                   (i # j /\ ValidOverride(arguments[i]) /\ ValidOverride(arguments[j]))
                   => KeyBeforeFirstEquals(arguments[i]) # KeyBeforeFirstEquals(arguments[j]))
               => \A p \in Reorderings(Len(arguments)) :
                     NormalizedString(template_file, Reordered(arguments, p), op)
                        = connected_params

C10_Witness ==
    /\ pc = "signed"
    /\ Len(template_file) = 2
    /\ StrLess(template_file[2][1], template_file[1][1])
    /\ Len(arguments) = 2
    /\ ValidOverride(arguments[1])
    /\ ValidOverride(arguments[2])
    /\ KeyBeforeFirstEquals(arguments[1]) # KeyBeforeFirstEquals(arguments[2])
    /\ StrLess(K_oauth_version, request_params_str[Len(request_params_str)])

====
